---- MODULE Spec2Model ----
(***************************************************************************)
(* Fintoc -> Actual Budget synchronisation (app.mjs).                      *)
(*                                                                         *)
(* Three specifications share the module:                                  *)
(*   Spec      the batch job: main, syncFintocToActual, createNewBudget,   *)
(*             updateExistingBudget, run again and again over the same     *)
(*             mapping file and the same destination budget;               *)
(*   SpecLinks FintocService.getAccounts, its two Promise.all fan-outs     *)
(*             completing in any order;                                    *)
(*   SpecStore Account.fromJSON, BudgetManager.save and BudgetManager.load *)
(*             applied to inputs drawn from bounded sets.                  *)
(***************************************************************************)
EXTENDS Integers, Sequences, FiniteSets, TLC

VARIABLES
    \* ---- the batch job (Spec) ----
    pc,             \* position of the run in main / syncFintocToActual
    run,            \* number of the current run of the process
    isUpdate,       \* budgetExists as probed by main: UPDATE (TRUE) or CREATE
    fintocAccounts, \* result of fintoc.getAccounts of this run
    budgetManager,  \* the run's BudgetManager: [budgetName, accounts]
    i,              \* index of the for-of loop under way
    file,           \* the mapping file CONFIG.ACCOUNTS_JSON_FILE
    destBudget,     \* a budget named CONFIG.ACTUAL_BUDGET_NAME exists in Actual
    nextId,         \* next account id actual_api.createAccount hands out
    created,        \* per source id: destination accounts created, over all runs
    log,            \* what this run has called so far
    \* ---- FintocService.getAccounts (SpecLinks) ----
    gpc,            \* "links" | "accounts" | "done"
    world,          \* per token position: does links.get / accounts.all succeed
    links,          \* results of the first Promise.all, by position
    accountsArrays, \* results of the second Promise.all, by position
    finished,       \* order in which the tasks of the current fan-out completed
    gresult,        \* what getAccounts returned
    graised,        \* getAccounts rejected
    \* ---- Account.fromJSON / BudgetManager.save / load (SpecStore) ----
    spc,            \* "start" | "saved" | "loaded" | "reconciled"
    sInput,         \* the inputs drawn for the operation
    sFile,          \* the file written by save
    sOut            \* the result of the operation

jobVars   == <<pc, run, isUpdate, fintocAccounts, budgetManager, i, file,
               destBudget, nextId, created, log>>
linkVars  == <<gpc, world, links, accountsArrays, finished, gresult, graised>>
storeVars == <<spc, sInput, sFile, sOut>>
vars      == <<jobVars, linkVars, storeVars>>

----------------------------------------------------------------------------
(* Bounds of the model *)

\* runs of the process over the same mapping file and destination
MaxRuns == 3

----------------------------------------------------------------------------
(* JavaScript values *)

\* the value undefined (a missing key, an absent argument)
Undef == "undefined"

\* null as an account's actualId (the Account constructor's default)
Null == 0

\* x || d for a string-valued x
OrElse(x, d) == IF x = Undef \/ x = "" THEN d ELSE x

\* x || 0 for a number-valued x
OrZero(x) == IF x = 0 THEN 0 ELSE x

\* obj[k] of a parsed JSON object: undefined when the key is absent
Field(obj, k) == IF k \in DOMAIN obj THEN obj[k] ELSE Undef

\* parsed JSON values that are no objects: null, and a primitive such as 5.
\* A property read of the primitive gives undefined (Field finds no key).
JsonNull   == [jsonType |-> "null"]
JsonNumber == [jsonType |-> "number"]

\* a property read of v throws a TypeError: v is null
ReadThrows(v) == "jsonType" \in DOMAIN v /\ v.jsonType = "null"

\* allFintocAccounts.find(acc => acc.account.id === fintocId): the index of the
\* first match from k on, 0 when there is none
RECURSIVE FindFintoc(_, _, _)
FindFintoc(list, fintocId, k) ==
    IF k > Len(list) THEN 0
    ELSE IF list[k].account.id = fintocId THEN k
    ELSE FindFintoc(list, fintocId, k + 1)

\* Array.prototype.flat of an array of arrays
RECURSIVE Flat(_)
Flat(arrays) ==
    IF arrays = <<>> THEN <<>> ELSE Head(arrays) \o Flat(Tail(arrays))

----------------------------------------------------------------------------
(* Configuration *)

\* CONFIG.ACTUAL_BUDGET_NAME
BudgetName == "Budget"

\* CONFIG.LINK_TOKENS
LinkTokens == <<"t1", "t2">>

----------------------------------------------------------------------------
(* The Account model *)

\* new Account(fintocData, institution, actualId)
NewAccount(fintocData, institution, actualId) ==
    [fintoc |-> fintocData, institution |-> institution, actualId |-> actualId]

AccountId(acc)       == OrElse(acc.fintoc.id, "")
AccountName(acc)     == OrElse(acc.fintoc.name, "")
AccountType(acc)     == OrElse(acc.fintoc.type, "")
AccountBalance(acc)  == OrZero(acc.fintoc.balance)
AccountCurrency(acc) == OrElse(acc.fintoc.currency, "")
InstitutionName(acc) == OrElse(acc.institution.name, "Unknown")
DisplayName(acc)     == <<InstitutionName(acc), " - ", AccountName(acc)>>

\* Account.getActualAccountType: the fixed lookup table, "other" otherwise
GetActualAccountType(acc) ==
    CASE AccountType(acc) = "checking_account" -> "checking"
      [] AccountType(acc) = "sight_account"    -> "checking"
      [] AccountType(acc) = "savings_account"  -> "savings"
      [] AccountType(acc) = "line_of_credit"   -> "credit"
      [] AccountType(acc) = "credit_card"      -> "credit"
      [] OTHER                                 -> "other"

\* Account.toActualFormat
ToActualFormat(acc) ==
    [name |-> DisplayName(acc), type |-> GetActualAccountType(acc)]

\* a plausible slip: the persisted record keeps the destination kind
ToJSONDestinationKind(acc) ==
    [fintocId        |-> AccountId(acc),
     name            |-> AccountName(acc),
     type            |-> GetActualAccountType(acc),
     balance         |-> AccountBalance(acc),
     currency        |-> AccountCurrency(acc),
     actualId        |-> acc.actualId,
     institutionName |-> InstitutionName(acc)]

\* Account.toJSON
ToJSON(acc) ==
    [fintocId        |-> AccountId(acc),
     name            |-> AccountName(acc),
     type            |-> AccountType(acc),
     balance         |-> AccountBalance(acc),
     currency        |-> AccountCurrency(acc),
     actualId        |-> acc.actualId,
     institutionName |-> InstitutionName(acc)]

\* Account.fromFintocData: the third argument is left to its default, null
FromFintocData(data) == NewAccount(data.account, data.institution, Null)

\* a plausible slip: a matched record is rebuilt without its actualId
FromJSONForgetId(data, allFintocAccounts) ==
    LET m == FindFintoc(allFintocAccounts, Field(data, "fintocId"), 1)
    IN  IF m # 0
        THEN FromFintocData(allFintocAccounts[m])
        ELSE NewAccount(
               [id       |-> Field(data, "fintocId"),
                name     |-> Field(data, "name"),
                type     |-> Field(data, "type"),
                balance  |-> Field(data, "balance"),
                currency |-> Field(data, "currency")],
               [name |-> Field(data, "institutionName")],
               Field(data, "actualId"))

\* Account.fromJSON
FromJSON(data, allFintocAccounts) ==
    LET m == FindFintoc(allFintocAccounts, Field(data, "fintocId"), 1)
    IN  IF m # 0
        THEN [FromFintocData(allFintocAccounts[m])
                EXCEPT !.actualId = Field(data, "actualId")]
        ELSE NewAccount(
               [id       |-> Field(data, "fintocId"),
                name     |-> Field(data, "name"),
                type     |-> Field(data, "type"),
                balance  |-> Field(data, "balance"),
                currency |-> Field(data, "currency")],
               [name |-> Field(data, "institutionName")],
               \* an undefined third argument takes the default, null
               IF "actualId" \in DOMAIN data THEN data.actualId ELSE Null)

\* Account.fromJSON throws: data.fintocId is read of a null data, in the
\* find callback or, with no source account to look at, in the constructor
\* arguments
FromJSONThrows(data) == ReadThrows(data)

----------------------------------------------------------------------------
(* BudgetManager *)

\* new BudgetManager(budgetName)
NewBudgetManager(budgetName) == [budgetName |-> budgetName, accounts |-> <<>>]

\* BudgetManager.addAccount
AddAccount(manager, account) ==
    [manager EXCEPT !.accounts = Append(@, account)]

\* a plausible slip: the lookup never finds the account
HasAccountNever(manager, fintocId) == FALSE

\* BudgetManager.hasAccount
HasAccount(manager, fintocId) ==
    \E k \in 1..Len(manager.accounts) : AccountId(manager.accounts[k]) = fintocId

\* the file states: absent, unparsable text, or the text of a JSON value
AbsentFile     == [kind |-> "absent"]
GarbageFile    == [kind |-> "garbage"]
JsonFile(text) == [kind |-> "json", value |-> text]

\* the data BudgetManager.save hands to saveToJsonFile, as JSON.stringify
\* writes it: a key whose value is undefined is left out
SaveData(manager) ==
    LET accounts == [k \in 1..Len(manager.accounts) |->
                       ToJSON(manager.accounts[k])]
    IN  IF manager.budgetName = Undef
        THEN [accounts |-> accounts]
        ELSE [budgetName |-> manager.budgetName, accounts |-> accounts]

\* saveToJsonFile: the file after the call. A writeFile that fails leaves the
\* old file or a truncated one; the error is swallowed (false is returned).
SaveToJsonFile(old, data, outcome) ==
    CASE outcome = "written"   -> JsonFile(data)
      [] outcome = "untouched" -> old
      [] outcome = "truncated" -> GarbageFile

WriteOutcomes == {"written", "untouched", "truncated"}

\* a plausible slip: the manager is built with the default name, the name in
\* the file is not looked at
LoadDefaultName(f, readOk, budgetName, fintocAccounts_) ==
    IF f.kind = "absent" THEN NewBudgetManager(budgetName)
    ELSE IF ~readOk \/ f.kind = "garbage" THEN NewBudgetManager(budgetName)
    ELSE LET data == f.value
         IN  [budgetName |-> budgetName,
              accounts   |-> IF "accounts" \in DOMAIN data
                             THEN [k \in 1..Len(data.accounts) |->
                                     FromJSON(data.accounts[k], fintocAccounts_)]
                             ELSE <<>>]

\* BudgetManager.load, the try block; readOk is whether readFile succeeds.
\* [threw |-> TRUE] when readFile, JSON.parse, the read of data.budgetName
\* or a fromJSON inside the forEach throws, else the manager returned.
LoadTry(f, readOk, budgetName, fintocAccounts_) ==
    IF f.kind = "absent"
    THEN [threw |-> FALSE, value |-> NewBudgetManager(budgetName)]
    ELSE IF ~readOk \/ f.kind = "garbage" THEN [threw |-> TRUE]
    ELSE LET data == f.value
         IN  IF ReadThrows(data) THEN [threw |-> TRUE]
             ELSE IF "accounts" \notin DOMAIN data
             THEN [threw |-> FALSE,
                   value |-> NewBudgetManager(
                               OrElse(Field(data, "budgetName"), budgetName))]
             ELSE IF \E k \in 1..Len(data.accounts) :
                       FromJSONThrows(data.accounts[k])
             THEN [threw |-> TRUE]
             ELSE [threw |-> FALSE,
                   value |->
                     [budgetName |->
                        OrElse(Field(data, "budgetName"), budgetName),
                      accounts |->
                        [k \in 1..Len(data.accounts) |->
                           FromJSON(data.accounts[k], fintocAccounts_)]]]

\* what a caller of load sees when load rejects
Raised == [raised |-> TRUE]

\* a plausible slip: the catch logs and rethrows, as loadBudget does
LoadRethrow(f, readOk, budgetName, fintocAccounts_) ==
    LET r == LoadTry(f, readOk, budgetName, fintocAccounts_)
    IN  IF r.threw THEN Raised ELSE r.value

\* BudgetManager.load: the catch returns a new manager under the default name
Load(f, readOk, budgetName, fintocAccounts_) ==
    LET r == LoadTry(f, readOk, budgetName, fintocAccounts_)
    IN  IF r.threw THEN NewBudgetManager(budgetName) ELSE r.value

----------------------------------------------------------------------------
(* The source: what the Fintoc API holds *)

SourceIds == {"a", "b"}

\* the account objects the API returns
FintocAccount(id) ==
    CASE id = "a" -> [id |-> "a", name |-> "Cuenta Corriente",
                      type |-> "checking_account", balance |-> 1500,
                      currency |-> "CLP"]
      [] id = "b" -> [id |-> "b", name |-> "Billetera",
                      type |-> "wallet", balance |-> 0,
                      currency |-> "CLP"]

\* a link as client.links.get(token) returns it
Link(token) ==
    [kind        |-> "link",
     token       |-> token,
     institution |-> IF token = "t1" THEN [name |-> "Banco Uno"]
                                     ELSE [name |-> Undef],
     accounts    |-> IF token = "t1" THEN <<FintocAccount("a")>>
                                     ELSE <<FintocAccount("b")>>]

\* the empty array [], safeExecute's default value
EmptyArray == [kind |-> "array"]

\* Boolean(x) of a link or an array: both are objects, so both are truthy
Truthy(x) == x.kind \in {"link", "array"}

----------------------------------------------------------------------------
(* JavaScript numbers: IEEE-754 binary64, round to nearest, ties to even.  *)
(* A natural number of any size is the sequence of its bits, the most      *)
(* significant first and without leading zeros; a double is                *)
(* [neg, mant, exp] of value mant * 2^exp with mant of SignificandBits     *)
(* bits, and mant = <<>> for zero. The amounts here are far from the       *)
(* subnormal and the overflow range.                                       *)

SignificandBits == 53

\* the bits of a natural number
RECURSIVE Bits(_)
Bits(n) == IF n = 0 THEN <<>> ELSE Append(Bits(n \div 2), n % 2)

Zeros(n) == [k \in 1..n |-> 0]

RECURSIVE StripZeros(_)
StripZeros(b) ==
    IF b # <<>> /\ b[1] = 0 THEN StripZeros(Tail(b)) ELSE b

\* the arithmetic works on digits of DigitBits bits
DigitBits == 4

Min(a, b) == IF a < b THEN a ELSE b

\* the w bits of v < 2^w
BitsOf(v, w) == [k \in 1..w |-> (v \div 2^(w - k)) % 2]

\* the number that a digit, a sequence of at most DigitBits bits, stands for
ValueOf(digit) ==
    CHOOSE v \in 0..(2^Len(digit) - 1) :
      \A k \in 1..Len(digit) : BitsOf(v, Len(digit))[k] = digit[k]

\* b * c + carry, digit by digit from the least significant, the digits of
\* the result so far in acc
RECURSIVE MulAdd(_, _, _, _)
MulAdd(b, c, carry, acc) ==
    LET n == Len(b)
        w == Min(DigitBits, n)
        t == ValueOf(SubSeq(b, n - w + 1, n)) * c + carry
    IN  IF n = 0 THEN Bits(carry) \o acc
        ELSE MulAdd(SubSeq(b, 1, n - w), c, t \div 2^w,
                    BitsOf(t % 2^w, w) \o acc)

\* quotient, in the places of b, and remainder of b by d, digit by digit from
\* the most significant, with rem left of b and the digits of the quotient so
\* far in acc
RECURSIVE DivMod(_, _, _, _)
DivMod(b, d, rem, acc) ==
    LET n == Len(b)
        w == Min(DigitBits, n)
        t == rem * 2^w + ValueOf(SubSeq(b, 1, w))
    IN  IF n = 0 THEN [q |-> acc, r |-> rem]
        ELSE DivMod(SubSeq(b, w + 1, n), d, t % d,
                    acc \o BitsOf(t \div d, w))

\* b, with more below it when sticky, rounded to the significand: the
\* significand and how many places the value moved
RoundToSignificand(b, sticky) ==
    LET n == Len(b)
    IN  IF n <= SignificandBits
        THEN [mant |-> b \o Zeros(SignificandBits - n),
              shift |-> n - SignificandBits]
        ELSE LET keep == SubSeq(b, 1, SignificandBits)
                 rest == \E k \in (SignificandBits + 2)..n : b[k] = 1
                 up   == /\ b[SignificandBits + 1] = 1
                         /\ (sticky \/ rest \/ keep[SignificandBits] = 1)
                 inc  == IF up THEN MulAdd(keep, 1, 1, <<>>)
                         ELSE keep
             IN  [mant  |-> SubSeq(inc, 1, SignificandBits),
                  shift |-> (n - SignificandBits)
                              + (Len(inc) - SignificandBits)]

Abs(n) == IF n < 0 THEN -n ELSE n

\* the double of an integer
DoubleOfInt(n) ==
    LET r == RoundToSignificand(Bits(Abs(n)), FALSE)
    IN  IF n = 0 THEN [neg |-> FALSE, mant |-> <<>>, exp |-> 0]
        ELSE [neg |-> n < 0, mant |-> r.mant, exp |-> r.shift]

\* the double of a decimal with two places, h hundredths: the one nearest
\* to h / 100
DoubleOfHundredths(h) ==
    LET dv == DivMod(Bits(Abs(h)) \o Zeros(SignificandBits + 11), 100, 0,
                     <<>>)
        r  == RoundToSignificand(StripZeros(dv.q), dv.r # 0)
    IN  IF h = 0 THEN DoubleOfInt(0)
        ELSE [neg |-> h < 0, mant |-> r.mant,
              exp |-> r.shift - (SignificandBits + 11)]

\* x * c of a double x and a small natural c > 0
Times(x, c) ==
    LET r == RoundToSignificand(MulAdd(x.mant, c, 0, <<>>), FALSE)
    IN  IF x.mant = <<>> THEN x
        ELSE [neg |-> x.neg, mant |-> r.mant, exp |-> x.exp + r.shift]

\* a movement amount that is a number, given as its decimal in hundredths
Amount(h) == [type |-> "number", value |-> DoubleOfHundredths(h)]

\* a movement amount that is no number: a string such as "12.5"
StringAmount == [type |-> "string"]

\* a movement without an amount
NoAmount == [type |-> "undefined"]

\* the movement the API returns for an account
Movement(id) ==
    [id |-> IF id = "a" THEN "mov_a" ELSE "mov_b",
     post_date |-> "2024-05-02",
     amount |-> IF id = "a" THEN Amount(1200) ELSE Amount(-700),
     description |-> IF id = "a" THEN "Cafe" ELSE Undef]

----------------------------------------------------------------------------
(* safeExecute and FintocService *)

\* safeExecute(fn, errorMessage, defaultValue): outcome is what fn did,
\* [threw |-> TRUE] or [threw |-> FALSE, value |-> v]
SafeExecute(outcome, defaultValue) ==
    IF outcome.threw THEN defaultValue ELSE outcome.value

\* the function getAccounts runs per token: client.links.get(token)
GetLink(token, ok) ==
    IF ok THEN [threw |-> FALSE, value |-> Link(token)] ELSE [threw |-> TRUE]

\* the function getAccounts runs per link: link.accounts.all, then the map.
\* On the array [] link.accounts is undefined and .all throws a TypeError.
ListAccounts(link, ok) ==
    IF link.kind # "link" THEN [threw |-> TRUE]
    ELSE IF ~ok THEN [threw |-> TRUE]
    ELSE [threw |-> FALSE,
          value |-> [k \in 1..Len(link.accounts) |->
                       [account |-> link.accounts[k],
                        institution |-> link.institution]]]

\* links.filter(Boolean), each link kept with the position of its token
RECURSIVE FilterTruthy(_)
FilterTruthy(ls) ==
    IF ls = <<>> THEN <<>>
    ELSE IF Truthy(Head(ls).val) THEN <<Head(ls)>> \o FilterTruthy(Tail(ls))
    ELSE FilterTruthy(Tail(ls))

\* what the API does in one call of getAccounts: per token position,
\* whether links.get and accounts.all succeed
Worlds == [1..Len(LinkTokens) -> [link : BOOLEAN, list : BOOLEAN]]

\* FintocService.getAccounts, both fan-outs run to completion: Promise.all
\* puts each result at its task's position
GetAccounts(tokens, w) ==
    LET ls   == [k \in 1..Len(tokens) |->
                   [pos |-> k,
                    val |-> SafeExecute(GetLink(tokens[k], w[k].link),
                                        EmptyArray)]]
        kept == FilterTruthy(ls)
        arrs == [k \in 1..Len(kept) |->
                   SafeExecute(ListAccounts(kept[k].val, w[kept[k].pos].list),
                               <<>>)]
    IN  Flat(arrs)

\* FintocService.getMovements: what the API does is "fail", "none" or "some"
GetMovements(account, apiOutcome) ==
    SafeExecute(CASE apiOutcome = "fail" -> [threw |-> TRUE]
                  [] apiOutcome = "none" -> [threw |-> FALSE, value |-> <<>>]
                  [] apiOutcome = "some" ->
                       [threw |-> FALSE,
                        value |-> <<Movement(account.account.id)>>],
                <<>>)

MovementOutcomes == {"fail", "none", "some"}

----------------------------------------------------------------------------
(* ActualService *)

\* typeof x === 'number'
IsNumber(x) == x.type = "number"

\* the conversion of addTransactions: movements to Actual transactions.
\* filter(Boolean) keeps every element: map made each one an object.
ToTransactions(accountId, movements) ==
    [k \in 1..Len(movements) |->
       [account        |-> accountId,
        date           |-> movements[k].post_date,
        amount         |-> IF IsNumber(movements[k].amount)
                           THEN Times(movements[k].amount.value, 100)
                           ELSE DoubleOfInt(0),
        imported_payee |-> OrElse(movements[k].description, ""),
        imported_id    |-> OrElse(movements[k].id, ""),
        notes          |-> OrElse(movements[k].description, "")]]

\* a plausible slip: the update path appends instead of importing
ApiOfAlwaysAdd(isUpdate_) == "addTransactions"

\* the API method addTransactions picks
ApiOf(isUpdate_) ==
    IF isUpdate_ THEN "importTransactions" ELSE "addTransactions"

\* ActualService.addTransactions: the log after the call; apiOk is whether the
\* actual_api call succeeds. Nothing is sent when there is nothing to send.
AddTransactions(lg, accountId, movements, isUpdate_, apiOk) ==
    LET transactions == ToTransactions(accountId, movements)
    IN  IF Len(transactions) = 0 THEN lg
        ELSE [lg EXCEPT
                !.submits = @ \cup {[api |-> ApiOf(isUpdate_),
                                     account |-> accountId,
                                     transactions |-> transactions]},
                !.total = @ + (IF apiOk THEN Len(transactions) ELSE 0)]

----------------------------------------------------------------------------
(* The batch job: main, syncFintocToActual, updateExistingBudget,          *)
(* createNewBudget                                                         *)

\* what a run has called so far
EmptyLog ==
    [initialize   |-> 0,      \* calls of ActualService.initialize
     shutdown     |-> 0,      \* calls of ActualService.shutdown
     path         |-> "none", \* "create" | "update" once the path is entered
     loaded       |-> <<>>,   \* the accounts BudgetManager.load returned
     createCalls  |-> [s \in SourceIds |-> 0], \* calls of createAccount
     createdNow   |-> {},     \* source ids whose createAccount succeeded
     returned     |-> [s \in SourceIds |-> Null], \* id createAccount returned
     fetched      |-> {},     \* source ids whose movements were asked for
     got          |-> [s \in SourceIds |-> <<>>], \* what getMovements returned
     submits      |-> {},     \* calls of importTransactions / addTransactions
     total        |-> 0,      \* totalTransactions
     saveCalls    |-> 0,      \* calls of BudgetManager.save
     written      |-> FALSE,  \* the mapping file was rewritten
     budgetRaised |-> FALSE,  \* ActualService.loadBudget threw
     importRaised |-> FALSE]  \* actual_api.runImport threw before its callback

JobInit ==
    /\ pc = "main_initialize"
    /\ run = 1
    /\ isUpdate = FALSE
    /\ fintocAccounts = <<>>
    /\ budgetManager = NewBudgetManager(BudgetName)
    /\ i = 1
    /\ file = AbsentFile
    /\ destBudget = FALSE
    /\ nextId = 1
    /\ created = [s \in SourceIds |-> 0]
    /\ log = EmptyLog

\* main, line 602: where main goes after actualService.initialize()
AfterMainInitialize(ok) == IF ok THEN "main_budgetExists" ELSE "main_end"

\* main: await actualService.initialize(). A rejection lands in main's catch.
MainInitialize ==
    /\ pc = "main_initialize"
    /\ \E ok \in BOOLEAN :
         /\ pc' = AfterMainInitialize(ok)
         /\ log' = [log EXCEPT !.initialize = @ + 1]
    /\ UNCHANGED <<linkVars, storeVars>>
    /\ UNCHANGED <<run, isUpdate, fintocAccounts, budgetManager, i, file,
                   destBudget, nextId, created>>

\* ActualService.budgetExists: false when actual_api.getBudgets throws
BudgetExists(exists, apiOk) == IF apiOk THEN exists ELSE FALSE

\* main: const budgetExists = await actualService.budgetExists(...)
MainBudgetExists ==
    /\ pc = "main_budgetExists"
    /\ \E apiOk \in BOOLEAN : isUpdate' = BudgetExists(destBudget, apiOk)
    /\ pc' = "sync_initialize"
    /\ UNCHANGED <<linkVars, storeVars>>
    /\ UNCHANGED <<run, fintocAccounts, budgetManager, i, file, destBudget,
                   nextId, created, log>>

\* syncFintocToActual: await actual.initialize() inside the try
SyncInitialize ==
    /\ pc = "sync_initialize"
    /\ \E ok \in BOOLEAN :
         pc' = IF ok THEN "sync_getAccounts" ELSE "sync_shutdown"
    /\ log' = [log EXCEPT !.initialize = @ + 1]
    /\ UNCHANGED <<linkVars, storeVars>>
    /\ UNCHANGED <<run, isUpdate, fintocAccounts, budgetManager, i, file,
                   destBudget, nextId, created>>

\* syncFintocToActual: fintoc.getAccounts, then the branch on isUpdate
SyncGetAccounts ==
    /\ pc = "sync_getAccounts"
    /\ \E w \in Worlds : fintocAccounts' = GetAccounts(LinkTokens, w)
    /\ pc' = IF isUpdate THEN "update_load" ELSE "create_runImport"
    /\ UNCHANGED <<linkVars, storeVars>>
    /\ UNCHANGED <<run, isUpdate, budgetManager, i, file, destBudget, nextId,
                   created, log>>

\* updateExistingBudget: BudgetManager.load(...)
UpdateLoad ==
    /\ pc = "update_load"
    /\ \E readOk \in BOOLEAN :
         budgetManager' = Load(file, readOk, BudgetName, fintocAccounts)
    /\ log' = [log EXCEPT !.path = "update",
                          !.loaded = budgetManager'.accounts]
    /\ pc' = "update_loadBudget"
    /\ UNCHANGED <<linkVars, storeVars>>
    /\ UNCHANGED <<run, isUpdate, fintocAccounts, i, file, destBudget, nextId,
                   created>>

\* a plausible slip: loadBudget swallows the error as budgetExists does
AfterLoadBudgetSwallow(apiOk) == "update_create"

\* updateExistingBudget after actual.loadBudget: ActualService.loadBudget
\* rethrows what actual_api throws, and the throw leaves updateExistingBudget
AfterLoadBudget(apiOk) == IF apiOk THEN "update_create" ELSE "sync_shutdown"

\* updateExistingBudget: await actual.loadBudget(...)
UpdateLoadBudget ==
    /\ pc = "update_loadBudget"
    /\ \E apiOk \in BOOLEAN :
         /\ pc' = AfterLoadBudget(apiOk)
         /\ log' = [log EXCEPT !.budgetRaised = ~apiOk]
    /\ i' = 1
    /\ UNCHANGED <<linkVars, storeVars>>
    /\ UNCHANGED <<run, isUpdate, fintocAccounts, budgetManager, file,
                   destBudget, nextId, created>>

\* ActualService.createAccount succeeding: the account with the id the
\* destination handed out
CreateAccount(account, accountId) == [account EXCEPT !.actualId = accountId]

\* a plausible slip: a failed createAccount is not caught per account
AfterCreateFailureAbort(next) == "sync_shutdown"

\* the catch inside both for-of loops: the loop goes on with the next account
AfterCreateFailure(next) == next

\* where a for-of loop over list goes after element k
LoopNext(list, k, again, after) == IF k < Len(list) THEN again ELSE after

\* updateExistingBudget: the for-of loop creating the accounts the mapping
\* lacks; one iteration
UpdateCreate ==
    /\ pc = "update_create"
    /\ i <= Len(fintocAccounts)
    /\ LET fintocData == fintocAccounts[i]
           fintocId   == fintocData.account.id
           next       == LoopNext(fintocAccounts, i, "update_create",
                                  "update_transactions")
       IN  IF HasAccount(budgetManager, fintocId)
           THEN /\ pc' = next
                /\ UNCHANGED <<budgetManager, nextId, created, log>>
           ELSE \/ \* createAccount succeeds
                   /\ budgetManager' =
                        AddAccount(budgetManager,
                                   CreateAccount(FromFintocData(fintocData),
                                                 nextId))
                   /\ nextId' = nextId + 1
                   /\ created' = [created EXCEPT ![fintocId] = @ + 1]
                   /\ log' = [log EXCEPT !.createCalls[fintocId] = @ + 1,
                                         !.createdNow = @ \cup {fintocId},
                                         !.returned[fintocId] = nextId]
                   /\ pc' = next
                \/ \* createAccount throws
                   /\ log' = [log EXCEPT !.createCalls[fintocId] = @ + 1]
                   /\ pc' = AfterCreateFailure(next)
                   /\ UNCHANGED <<budgetManager, nextId, created>>
    /\ i' = IF pc' = "update_create" THEN i + 1 ELSE 1
    /\ UNCHANGED <<linkVars, storeVars>>
    /\ UNCHANGED <<run, isUpdate, fintocAccounts, file, destBudget>>

\* updateExistingBudget: the source returned no account, the loop is empty
UpdateCreateNone ==
    /\ pc = "update_create"
    /\ Len(fintocAccounts) = 0
    /\ pc' = "update_transactions"
    /\ i' = 1
    /\ UNCHANGED <<linkVars, storeVars>>
    /\ UNCHANGED <<run, isUpdate, fintocAccounts, budgetManager, file,
                   destBudget, nextId, created, log>>

\* updateExistingBudget: the for-of loop over budgetManager.accounts; one
\* iteration
UpdateTransactions ==
    /\ pc = "update_transactions"
    /\ i <= Len(budgetManager.accounts)
    /\ LET account  == budgetManager.accounts[i]
           matching == FindFintoc(fintocAccounts, AccountId(account), 1)
       IN  IF matching # 0
           THEN \E outcome \in MovementOutcomes, apiOk \in BOOLEAN :
                  LET data      == fintocAccounts[matching]
                      movements == GetMovements([account |-> data.account],
                                                outcome)
                      lg == [log EXCEPT
                               !.fetched = @ \cup {data.account.id},
                               !.got[data.account.id] = movements]
                  IN  log' = AddTransactions(lg, account.actualId, movements,
                                             TRUE, apiOk)
           ELSE UNCHANGED log
    /\ pc' = LoopNext(budgetManager.accounts, i, "update_transactions",
                      "update_save")
    /\ i' = IF pc' = "update_transactions" THEN i + 1 ELSE 1
    /\ UNCHANGED <<linkVars, storeVars>>
    /\ UNCHANGED <<run, isUpdate, fintocAccounts, budgetManager, file,
                   destBudget, nextId, created>>

\* updateExistingBudget: the mapping holds no account, the loop is empty
UpdateTransactionsNone ==
    /\ pc = "update_transactions"
    /\ Len(budgetManager.accounts) = 0
    /\ pc' = "update_save"
    /\ i' = 1
    /\ UNCHANGED <<linkVars, storeVars>>
    /\ UNCHANGED <<run, isUpdate, fintocAccounts, budgetManager, file,
                   destBudget, nextId, created, log>>

\* both paths: await budgetManager.save(CONFIG.ACCOUNTS_JSON_FILE)
Save(from) ==
    /\ pc = from
    /\ \E outcome \in WriteOutcomes :
         /\ file' = SaveToJsonFile(file, SaveData(budgetManager), outcome)
         /\ log' = [log EXCEPT !.saveCalls = @ + 1,
                               !.written = (outcome = "written")]
    /\ pc' = "sync_shutdown"
    /\ UNCHANGED <<linkVars, storeVars>>
    /\ UNCHANGED <<run, isUpdate, fintocAccounts, budgetManager, i,
                   destBudget, nextId, created>>

UpdateSave == Save("update_save")

\* createNewBudget: actual_api.runImport(name, callback). It creates the
\* budget and runs the callback, or throws before it does either.
CreateRunImport ==
    /\ pc = "create_runImport"
    /\ \/ /\ destBudget' = TRUE
          /\ budgetManager' = NewBudgetManager(BudgetName)
          /\ log' = [log EXCEPT !.path = "create"]
          /\ pc' = IF Len(fintocAccounts) = 0 THEN "create_save"
                                              ELSE "create_accounts"
       \/ /\ log' = [log EXCEPT !.path = "create", !.importRaised = TRUE]
          /\ pc' = "sync_shutdown"
          /\ UNCHANGED <<destBudget, budgetManager>>
    /\ i' = 1
    /\ UNCHANGED <<linkVars, storeVars>>
    /\ UNCHANGED <<run, isUpdate, fintocAccounts, file, nextId, created>>

\* createNewBudget: the for-of loop over fintocAccounts; one iteration
CreateAccounts ==
    /\ pc = "create_accounts"
    /\ i <= Len(fintocAccounts)
    /\ LET fintocData == fintocAccounts[i]
           fintocId   == fintocData.account.id
           next       == LoopNext(fintocAccounts, i, "create_accounts",
                                  "create_save")
       IN  \/ \* createAccount succeeds: movements are fetched and added
              \E outcome \in MovementOutcomes, apiOk \in BOOLEAN :
                LET createdAccount == CreateAccount(FromFintocData(fintocData),
                                                    nextId)
                    movements == GetMovements([account |-> fintocData.account],
                                              outcome)
                    lg == [log EXCEPT
                             !.createCalls[fintocId] = @ + 1,
                             !.createdNow = @ \cup {fintocId},
                             !.returned[fintocId] = nextId,
                             !.fetched = @ \cup {fintocId},
                             !.got[fintocId] = movements]
                IN  /\ budgetManager' = AddAccount(budgetManager, createdAccount)
                    /\ nextId' = nextId + 1
                    /\ created' = [created EXCEPT ![fintocId] = @ + 1]
                    /\ log' = AddTransactions(lg, createdAccount.actualId,
                                              movements, FALSE, apiOk)
                    /\ pc' = next
           \/ \* createAccount throws: caught, the account is skipped
              /\ log' = [log EXCEPT !.createCalls[fintocId] = @ + 1]
              /\ pc' = AfterCreateFailure(next)
              /\ UNCHANGED <<budgetManager, nextId, created>>
    /\ i' = IF pc' = "create_accounts" THEN i + 1 ELSE 1
    /\ UNCHANGED <<linkVars, storeVars>>
    /\ UNCHANGED <<run, isUpdate, fintocAccounts, file, destBudget>>

CreateSave == Save("create_save")

\* syncFintocToActual: finally { await actual.shutdown() }
SyncShutdown ==
    /\ pc = "sync_shutdown"
    /\ log' = [log EXCEPT !.shutdown = @ + 1]
    /\ pc' = "main_end"
    /\ UNCHANGED <<linkVars, storeVars>>
    /\ UNCHANGED <<run, isUpdate, fintocAccounts, budgetManager, i, file,
                   destBudget, nextId, created>>

\* the process is started again: the mapping file and the destination stay
NextRun ==
    /\ pc = "main_end"
    /\ run < MaxRuns
    /\ run' = run + 1
    /\ pc' = "main_initialize"
    /\ isUpdate' = FALSE
    /\ fintocAccounts' = <<>>
    /\ budgetManager' = NewBudgetManager(BudgetName)
    /\ i' = 1
    /\ log' = EmptyLog
    /\ UNCHANGED <<linkVars, storeVars>>
    /\ UNCHANGED <<file, destBudget, nextId, created>>

LinkIdle ==
    /\ gpc = "idle"
    /\ world = <<>>
    /\ links = <<>>
    /\ accountsArrays = <<>>
    /\ finished = <<>>
    /\ gresult = <<>>
    /\ graised = FALSE

StoreIdle ==
    /\ spc = "idle"
    /\ sInput = <<>>
    /\ sFile = AbsentFile
    /\ sOut = <<>>

Init == JobInit /\ LinkIdle /\ StoreIdle

JobNext ==
    \/ MainInitialize
    \/ MainBudgetExists
    \/ SyncInitialize
    \/ SyncGetAccounts
    \/ UpdateLoad
    \/ UpdateLoadBudget
    \/ UpdateCreate
    \/ UpdateCreateNone
    \/ UpdateTransactions
    \/ UpdateTransactionsNone
    \/ UpdateSave
    \/ CreateRunImport
    \/ CreateAccounts
    \/ CreateSave
    \/ SyncShutdown
    \/ NextRun

Spec == Init /\ [][JobNext]_vars

----------------------------------------------------------------------------
(* Properties of the batch job *)

\* the source ids of a getAccounts result
FintocIds(list) == {list[k].account.id : k \in 1..Len(list)}

\* the source ids of a list of Accounts
AccountIds(accounts) == {AccountId(accounts[k]) : k \in 1..Len(accounts)}

\* the source ids of the entries of the mapping file
FileIds(f) ==
    IF f.kind = "json" /\ "accounts" \in DOMAIN f.value
    THEN {f.value.accounts[k].fintocId : k \in 1..Len(f.value.accounts)}
    ELSE {}

\* the run took the UPDATE path and got past the new-account loop
UpdatePastCreate ==
    /\ log.path = "update"
    /\ ~log.budgetRaised
    /\ pc \in {"update_transactions", "update_save", "sync_shutdown",
               "main_end"}

\* the run took a path and no step outside the per-account work failed
RunCompleted ==
    /\ pc = "main_end"
    /\ log.path \in {"create", "update"}
    /\ ~log.budgetRaised
    /\ ~log.importRaised

\* C1: every execution that called ActualService.initialize has called
\* ActualService.shutdown when the process ends, whichever step failed.
C1_ShutdownAfterInitialize ==
    (pc = "main_end" /\ log.initialize > 0) => log.shutdown > 0

\* C2: on the UPDATE path, once the new-account loop is over: createAccount
\* was called exactly once for each source account the loaded mapping lacks
\* and never for one it holds, and each loaded account stands in the mapping,
\* and in the file save wrote, with the destination id it was loaded with.
C2_UpdateCreatesOnlyNew ==
    UpdatePastCreate =>
      /\ \A s \in SourceIds :
           log.createCalls[s] =
             IF s \in FintocIds(fintocAccounts) /\ s \notin AccountIds(log.loaded)
             THEN 1 ELSE 0
      /\ \A k \in 1..Len(log.loaded) :
           /\ k <= Len(budgetManager.accounts)
           /\ AccountId(budgetManager.accounts[k]) = AccountId(log.loaded[k])
           /\ budgetManager.accounts[k].actualId = log.loaded[k].actualId
           /\ (log.written =>
                 /\ file.kind = "json"
                 /\ file.value.accounts[k].fintocId = AccountId(log.loaded[k])
                 /\ file.value.accounts[k].actualId = log.loaded[k].actualId)

\* an UPDATE run that ended with one known account kept and one new created
C2_Witness ==
    /\ pc = "main_end"
    /\ UpdatePastCreate
    /\ log.written
    /\ AccountIds(log.loaded) = {"a"}
    /\ FintocIds(fintocAccounts) = {"a", "b"}
    /\ log.createCalls["b"] = 1
    /\ "b" \in log.createdNow

\* C3: over every sequence of runs a destination account is created at most
\* once per source id, and no entry written to the mapping file is removed
\* from it later.
C3_CreatedOnceNeverRemoved ==
    [][ /\ \A s \in SourceIds : created'[s] <= 1
        /\ FileIds(file) \subseteq FileIds(file') ]_vars

\* the call that submits the movements got for source id s to account id
Submission(api, accountId, s) ==
    [api |-> api, account |-> accountId,
     transactions |-> ToTransactions(accountId, log.got[s])]

\* the run took the UPDATE path and got past the transactions loop
UpdatePastTransactions ==
    /\ log.path = "update"
    /\ ~log.budgetRaised
    /\ pc \in {"update_save", "sync_shutdown", "main_end"}

\* C4 as claimed: on the UPDATE path the movements of every account in the
\* mapping after the new-account step, also of one the source no longer
\* returns, are fetched and, when there are any, submitted as an import.
C4_EveryMappedAccountImported ==
    UpdatePastTransactions =>
      \A k \in 1..Len(budgetManager.accounts) :
        LET account == budgetManager.accounts[k]
            s       == AccountId(account)
        IN  /\ s \in log.fetched
            /\ log.got[s] # <<>> =>
                 Submission("importTransactions", account.actualId, s)
                   \in log.submits

\* C4 amended: on the UPDATE path, for every account in the mapping after the
\* new-account step that the source still returns, the movements are fetched
\* and, when there are any, submitted by importTransactions with the account's
\* destination id; an account the source no longer returns is skipped; and no
\* call of the UPDATE path is an addTransactions.
C4_MatchedAccountsImported ==
    UpdatePastTransactions =>
      /\ \A k \in 1..Len(budgetManager.accounts) :
           LET account == budgetManager.accounts[k]
               s       == AccountId(account)
           IN  IF s \in FintocIds(fintocAccounts)
               THEN /\ s \in log.fetched
                    /\ log.got[s] # <<>> =>
                         Submission("importTransactions", account.actualId, s)
                           \in log.submits
               ELSE /\ s \notin log.fetched
                    /\ \A sub \in log.submits : sub.account # account.actualId
      /\ \A sub \in log.submits : sub.api = "importTransactions"

\* an UPDATE run that imported the movements of one account and skipped the
\* account the source no longer returns
C4_Witness ==
    /\ pc = "main_end"
    /\ UpdatePastTransactions
    /\ AccountIds(budgetManager.accounts) = {"a", "b"}
    /\ FintocIds(fintocAccounts) = {"a"}
    /\ log.got["a"] # <<>>
    /\ \E sub \in log.submits : sub.api = "importTransactions"

\* the CREATE run wrote the mapping file and every createAccount succeeded
CreateAllPersisted ==
    /\ log.path = "create"
    /\ log.written
    /\ log.createdNow = FintocIds(fintocAccounts)

\* the mapping file holds one entry per source account, in order, each with
\* the id createAccount returned for it
OneEntryPerSourceAccount ==
    /\ file.kind = "json"
    /\ Len(file.value.accounts) = Len(fintocAccounts)
    /\ \A k \in 1..Len(fintocAccounts) :
         /\ file.value.accounts[k].fintocId = fintocAccounts[k].account.id
         /\ file.value.accounts[k].actualId # Null
         /\ file.value.accounts[k].actualId =
              log.returned[fintocAccounts[k].account.id]

\* C5 as claimed: after a CREATE whose N creations succeed the persisted
\* mapping holds exactly N entries, one per source account, each with the id
\* its createAccount returned and with the destination kind of the lookup
\* table as its kind ("checking", "other").
C5_PersistedDestinationKind ==
    CreateAllPersisted =>
      /\ OneEntryPerSourceAccount
      /\ \A k \in 1..Len(fintocAccounts) :
           file.value.accounts[k].type =
             GetActualAccountType(FromFintocData(fintocAccounts[k]))

\* C5 amended: the same, with the kind recorded being the source kind
\* ("checking_account", "wallet"), from which the lookup table gives the
\* destination kind ("checking", "other").
C5_PersistedSourceKind ==
    CreateAllPersisted =>
      /\ OneEntryPerSourceAccount
      /\ \A k \in 1..Len(fintocAccounts) :
           LET entry == file.value.accounts[k]
           IN  /\ entry.type = fintocAccounts[k].account.type
               /\ (fintocAccounts[k].account.id = "a" =>
                     /\ entry.type = "checking_account"
                     /\ GetActualAccountType(FromJSON(entry, <<>>)) = "checking")
               /\ (fintocAccounts[k].account.id = "b" =>
                     /\ entry.type = "wallet"
                     /\ GetActualAccountType(FromJSON(entry, <<>>)) = "other")

\* a CREATE run over a checking account and a wallet, both created and
\* persisted
C5_Witness ==
    /\ pc = "main_end"
    /\ CreateAllPersisted
    /\ run = 1
    /\ Len(fintocAccounts) = 2

\* C6: a failure confined to one account aborts the run on neither path: at
\* the end of a run every source account that was new had its one
\* createAccount call, every account that was created or known had its
\* movements fetched and, when there were any, submitted, and the mapping was
\* saved exactly once, holding every account whose creation succeeded.
C6_PerAccountFailuresContained ==
    RunCompleted =>
      /\ log.saveCalls = 1
      /\ \A s \in FintocIds(fintocAccounts) :
           LET known == log.path = "update" /\ s \in AccountIds(log.loaded)
           IN  /\ ~known => log.createCalls[s] = 1
               /\ (known \/ s \in log.createdNow) =>
                    /\ s \in log.fetched
                    /\ log.got[s] # <<>> =>
                         \E k \in 1..Len(budgetManager.accounts) :
                           /\ AccountId(budgetManager.accounts[k]) = s
                           /\ Submission(ApiOf(log.path = "update"),
                                         budgetManager.accounts[k].actualId, s)
                                \in log.submits
      /\ log.createdNow \subseteq AccountIds(budgetManager.accounts)
      /\ log.written =>
           /\ file = JsonFile(SaveData(budgetManager))
           /\ log.createdNow \subseteq FileIds(file)

\* a run in which the creation of the first account failed and the second
\* account was created, its movements submitted, and the mapping saved
C6_Witness ==
    /\ RunCompleted
    /\ Len(fintocAccounts) = 2
    /\ log.createCalls["a"] = 1
    /\ "a" \notin log.createdNow
    /\ "b" \in log.createdNow
    /\ log.got["b"] # <<>>
    /\ log.written

\* C7: when ActualService.loadBudget raises on the UPDATE path the run is
\* aborted: no createAccount call, no submission and no save is made in that
\* run, the run goes nowhere but to the shutdown, and the shutdown has been
\* called when the process ends.
C7_LoadBudgetFailureAborts ==
    log.budgetRaised =>
      /\ log.path = "update"
      /\ \A s \in SourceIds : log.createCalls[s] = 0
      /\ log.createdNow = {}
      /\ log.submits = {}
      /\ log.saveCalls = 0
      /\ ~log.written
      /\ pc \in {"sync_shutdown", "main_end"}
      /\ pc = "main_end" => log.shutdown = 1

\* an UPDATE run with a new source account at hand ended after loadBudget
\* raised
C7_Witness ==
    /\ log.budgetRaised
    /\ pc = "main_end"
    /\ log.shutdown = 1
    /\ FintocIds(fintocAccounts) \ AccountIds(log.loaded) # {}

----------------------------------------------------------------------------
(* FintocService.getAccounts, task by task: the tasks of a Promise.all      *)
(* complete in any order                                                    *)

\* a task that has not completed yet
Pending == [kind |-> "pending"]

\* a plausible slip: the results are gathered in the order of completion
PromiseAllByCompletion(slots, order) ==
    [k \in 1..Len(slots) |-> slots[order[k]]]

\* Promise.all once every task has completed: the results by task position,
\* whatever the order of completion
PromiseAll(slots, order) == [k \in 1..Len(slots) |-> slots[k]]

LinksInit ==
    /\ gpc = "links"
    /\ world \in Worlds
    /\ links = [k \in 1..Len(LinkTokens) |-> Pending]
    /\ accountsArrays = <<>>
    /\ finished = <<>>
    /\ gresult = <<>>
    /\ graised = FALSE

\* one task of the first fan-out completes: safeExecute around links.get
LinkTask(k) ==
    /\ gpc = "links"
    /\ links[k] = Pending
    /\ links' = [links EXCEPT
                   ![k] = [pos |-> k,
                           val |-> SafeExecute(
                                     GetLink(LinkTokens[k], world[k].link),
                                     EmptyArray)]]
    /\ finished' = Append(finished, k)
    /\ UNCHANGED <<gpc, world, accountsArrays, gresult, graised>>
    /\ UNCHANGED <<jobVars, storeVars>>

\* the first Promise.all resolves; links.filter(Boolean).map(...) starts the
\* second fan-out
LinksGathered ==
    /\ gpc = "links"
    /\ \A k \in 1..Len(links) : links[k] # Pending
    /\ links' = FilterTruthy(PromiseAll(links, finished))
    /\ accountsArrays' = [k \in 1..Len(links') |-> Pending]
    /\ finished' = <<>>
    /\ gpc' = "accounts"
    /\ UNCHANGED <<world, gresult, graised>>
    /\ UNCHANGED <<jobVars, storeVars>>

\* one task of the second fan-out completes: safeExecute around
\* link.accounts.all and the map. The error message reads link.token before
\* safeExecute is entered, which throws for a link that is no object.
AccountsTask(k) ==
    /\ gpc = "accounts"
    /\ k <= Len(accountsArrays)
    /\ accountsArrays[k] = Pending
    /\ IF Truthy(links[k].val)
       THEN /\ accountsArrays' =
                 [accountsArrays EXCEPT
                    ![k] = [pos |-> k,
                            val |-> SafeExecute(
                                      ListAccounts(links[k].val,
                                                   world[links[k].pos].list),
                                      <<>>)]]
            /\ finished' = Append(finished, k)
            /\ UNCHANGED <<gpc, graised>>
       ELSE /\ graised' = TRUE
            /\ gpc' = "done"
            /\ UNCHANGED <<accountsArrays, finished>>
    /\ UNCHANGED <<world, links, gresult>>
    /\ UNCHANGED <<jobVars, storeVars>>

\* the second Promise.all resolves; return accountsArrays.flat()
AccountsGathered ==
    /\ gpc = "accounts"
    /\ \A k \in 1..Len(accountsArrays) : accountsArrays[k] # Pending
    /\ gresult' = LET arrays == PromiseAll(accountsArrays, finished)
                   IN  Flat([k \in 1..Len(arrays) |-> arrays[k].val])
    /\ gpc' = "done"
    /\ UNCHANGED <<world, links, accountsArrays, finished, graised>>
    /\ UNCHANGED <<jobVars, storeVars>>

JobIdle ==
    /\ pc = "idle"
    /\ run = 1
    /\ isUpdate = FALSE
    /\ fintocAccounts = <<>>
    /\ budgetManager = NewBudgetManager(BudgetName)
    /\ i = 1
    /\ file = AbsentFile
    /\ destBudget = FALSE
    /\ nextId = 1
    /\ created = [s \in SourceIds |-> 0]
    /\ log = EmptyLog

LinksNext ==
    \/ \E k \in 1..Len(LinkTokens) : LinkTask(k)
    \/ LinksGathered
    \/ \E k \in 1..Len(LinkTokens) : AccountsTask(k)
    \/ AccountsGathered

LinksSpecInit == JobIdle /\ LinksInit /\ StoreIdle

SpecLinks == LinksSpecInit /\ [][LinksNext]_vars

\* the accounts of the link at token position k as getAccounts hands them on
AccountsOfToken(k) ==
    LET link == Link(LinkTokens[k])
    IN  [n \in 1..Len(link.accounts) |->
           [account |-> link.accounts[n], institution |-> link.institution]]

\* the concatenation, in token order from position k on, of the account lists
\* of the links whose fetch and whose listing both succeeded
RECURSIVE SucceededFrom(_, _)
SucceededFrom(w, k) ==
    IF k > Len(LinkTokens) THEN <<>>
    ELSE (IF w[k].link /\ w[k].list THEN AccountsOfToken(k) ELSE <<>>)
           \o SucceededFrom(w, k + 1)

\* C8: getAccounts never raises, whichever links fail and in whichever order
\* the fetches complete, and what it returns is the concatenation in token
\* order of the account lists of the links that succeeded, a failed link
\* contributing nothing.
C8_FailedLinkContributesNothing ==
    /\ ~graised
    /\ gpc = "done" =>
         /\ gresult = SucceededFrom(world, 1)
         /\ gresult = GetAccounts(LinkTokens, world)

\* the second link was fetched and listed before the first, and both succeed
C8_WitnessReordered ==
    /\ gpc = "done"
    /\ finished = <<2, 1>>
    /\ Len(gresult) = 2

\* getAccounts returned although the fetch of the first link failed
C8_Witness ==
    /\ gpc = "done"
    /\ ~world[1].link
    /\ world[2].link /\ world[2].list
    /\ Len(gresult) = 1

----------------------------------------------------------------------------
(* Account.fromJSON, BudgetManager.save and BudgetManager.load on drawn     *)
(* inputs                                                                  *)

\* accounts a BudgetManager may hold, at most this many
MaxAccounts == 2

\* Accounts as the job builds them: from source data with or without a name,
\* balance, currency and institution, created in the destination or not yet
StoreAccounts ==
    {NewAccount([id |-> id, name |-> d.name, type |-> d.type,
                 balance |-> d.balance, currency |-> d.currency],
                [name |-> d.institution], actualId) :
       id \in {"a", "b", Undef},
       d \in {[name |-> "Cuenta Corriente", type |-> "checking_account",
               balance |-> 1500, currency |-> "CLP",
               institution |-> "Banco Uno"],
              [name |-> Undef, type |-> "wallet", balance |-> 0,
               currency |-> Undef, institution |-> Undef]},
       actualId \in {Null, 7}}

\* the sequences over S of length n
RECURSIVE SeqsOfLen(_, _)
SeqsOfLen(S, n) ==
    IF n = 0 THEN {<<>>}
    ELSE {Append(q, x) : q \in SeqsOfLen(S, n - 1), x \in S}

\* the account lists a BudgetManager may hold
AccountLists == UNION {SeqsOfLen(StoreAccounts, n) : n \in 0..MaxAccounts}

\* what the source returns by the time of the load: the data has moved on
\* (a new name and balance), or the account is gone
FreshFintoc(id) ==
    [account     |-> [id |-> id, name |-> "Cuenta Vista",
                      type |-> "sight_account", balance |-> 20,
                      currency |-> "USD"],
     institution |-> [name |-> "Banco Dos"]]

SourceLists ==
    {<<>>, <<FreshFintoc("a")>>, <<FreshFintoc("b"), FreshFintoc("a")>>}

StoreInit ==
    /\ spc = "start"
    /\ sInput \in [manager     : [budgetName : {"Budget", "", Undef},
                                  accounts   : AccountLists],
                   defaultName : {"Budget", "Otro"},
                   sources     : SourceLists,
                   saved       : {FALSE},
                   readOk      : {FALSE},
                   movements   : {<<>>}]
    /\ sFile = AbsentFile
    /\ sOut = <<>>

\* budgetManager.save(path)
StoreSave ==
    /\ spc = "start"
    /\ \E outcome \in WriteOutcomes :
         /\ sFile' = SaveToJsonFile(sFile, SaveData(sInput.manager), outcome)
         /\ sInput' = [sInput EXCEPT !.saved = (outcome = "written")]
    /\ spc' = "saved"
    /\ UNCHANGED sOut
    /\ UNCHANGED <<jobVars, linkVars>>

\* BudgetManager.load(path, defaultName, sources)
StoreLoad ==
    /\ spc = "saved"
    /\ \E readOk \in BOOLEAN :
         /\ sOut' = Load(sFile, readOk, sInput.defaultName, sInput.sources)
         /\ sInput' = [sInput EXCEPT !.readOk = readOk]
    /\ spc' = "loaded"
    /\ UNCHANGED sFile
    /\ UNCHANGED <<jobVars, linkVars>>

\* Account.fromJSON(record, sources) on each persisted record of the manager
StoreReconcile ==
    /\ spc = "start"
    /\ sOut' = [k \in 1..Len(sInput.manager.accounts) |->
                  FromJSON(ToJSON(sInput.manager.accounts[k]), sInput.sources)]
    /\ spc' = "reconciled"
    /\ UNCHANGED <<sInput, sFile>>
    /\ UNCHANGED <<jobVars, linkVars>>

MaxEntries == 2

\* a record as toJSON persisted it
PersistedEntry ==
    ToJSON(NewAccount([id |-> "a", name |-> "Cuenta Corriente",
                       type |-> "checking_account", balance |-> 1500,
                       currency |-> "CLP"],
                      [name |-> "Banco Uno"], 7))

\* the entries an accounts array on disk may hold
FileEntries == {PersistedEntry, JsonNull, JsonNumber}

\* the files load may find at the path: none, one that does not parse, and
\* valid JSON of any shape (null, a number, an object without an accounts
\* array, an object whose accounts array holds objects, nulls and numbers)
FoundFiles ==
    {AbsentFile, GarbageFile, JsonFile(JsonNull), JsonFile(JsonNumber),
     JsonFile([budgetName |-> "Viejo"])}
    \cup {JsonFile([budgetName |-> "Viejo", accounts |-> es]) :
            es \in UNION {SeqsOfLen(FileEntries, n) : n \in 0..MaxEntries}}

\* BudgetManager.load(path, defaultName, sources) on a file the job did not
\* just write. load is static: the manager in memory plays no part.
StoreLoadFile ==
    /\ spc = "start"
    /\ sInput.manager.accounts = <<>>
    /\ \E f \in FoundFiles, readOk \in BOOLEAN :
         /\ sFile' = f
         /\ sOut' = Load(f, readOk, sInput.defaultName, sInput.sources)
         /\ sInput' = [sInput EXCEPT !.readOk = readOk]
    /\ spc' = "loadedFile"
    /\ UNCHANGED <<jobVars, linkVars>>

MaxMovements == 2

\* the amounts of the source movements, in hundredths: 12.5, -7 and 1.15
Hundredths == {1250, -700, 115}

\* movements of the source: with a decimal, a negative and a whole amount,
\* with an amount that is a string, and with no amount and no description
SourceMovements ==
    {[id |-> "mov_a", post_date |-> "2024-05-02", amount |-> Amount(1250),
      description |-> "Cafe"],
     [id |-> "mov_b", post_date |-> "2024-05-03", amount |-> Amount(-700),
      description |-> "Pago"],
     [id |-> "mov_c", post_date |-> "2024-05-04", amount |-> Amount(115),
      description |-> "Pan"],
     [id |-> "mov_d", post_date |-> "2024-05-05", amount |-> StringAmount,
      description |-> "Cafe"],
     [id |-> "mov_e", post_date |-> "2024-05-06", amount |-> NoAmount,
      description |-> Undef]}

MovementLists ==
    UNION {SeqsOfLen(SourceMovements, n) : n \in 0..MaxMovements}

\* the conversion at the head of actualService.addTransactions(7, movements);
\* the manager in memory plays no part
StoreConvert ==
    /\ spc = "start"
    /\ sInput.manager.accounts = <<>>
    /\ \E movements \in MovementLists :
         /\ sInput' = [sInput EXCEPT !.movements = movements]
         /\ sOut' = ToTransactions(7, movements)
    /\ spc' = "converted"
    /\ UNCHANGED sFile
    /\ UNCHANGED <<jobVars, linkVars>>

StoreNext ==
    StoreSave \/ StoreLoad \/ StoreReconcile \/ StoreLoadFile \/ StoreConvert

StoreSpecInit == JobIdle /\ LinkIdle /\ StoreInit

SpecStore == StoreSpecInit /\ [][StoreNext]_vars

\* the (sourceId, destinationId) pairs of a list of Accounts
IdPairs(accounts) ==
    {<<AccountId(accounts[k]), accounts[k].actualId>> : k \in 1..Len(accounts)}

\* C9: Account.fromJSON(record, sourceAccounts) yields an Account with the
\* record's actualId and the record's fintocId; its other fields are those of
\* the source account with that id when there is one, and those of the
\* persisted record when there is none.
C9_FromJSONKeepsIdentity ==
    spc = "reconciled" =>
      \A k \in 1..Len(sOut) :
        LET record == ToJSON(sInput.manager.accounts[k])
            acc    == sOut[k]
            m      == FindFintoc(sInput.sources, record.fintocId, 1)
        IN  /\ acc.actualId = record.actualId
            /\ AccountId(acc) = record.fintocId
            /\ IF m # 0
               THEN /\ acc.fintoc = sInput.sources[m].account
                    /\ acc.institution = sInput.sources[m].institution
               ELSE /\ AccountName(acc) = record.name
                    /\ AccountType(acc) = record.type
                    /\ AccountBalance(acc) = record.balance
                    /\ AccountCurrency(acc) = record.currency
                    /\ InstitutionName(acc) = record.institutionName

\* a record with a destination id reconciled against fresh source data of the
\* same id, and one reconciled from its snapshot alone
C9_Witness ==
    /\ spc = "reconciled"
    /\ Len(sOut) = 2
    /\ sOut[1].actualId = 7
    /\ AccountId(sOut[1]) = "a"
    /\ AccountName(sOut[1]) = "Cuenta Vista"
    /\ AccountName(sInput.manager.accounts[1]) = "Cuenta Corriente"
    /\ AccountId(sOut[2]) = "b"
    /\ FindFintoc(sInput.sources, "b", 1) = 0

\* C10 as claimed: for any budgetName and any non-empty account list, save
\* followed by load yields the same budgetName and the same set of
\* (sourceId, destinationId) pairs (read here with the write and the read of
\* the file succeeding).
C10_RoundTripAnyName ==
    ( /\ spc = "loaded"
      /\ Len(sInput.manager.accounts) > 0
      /\ sInput.saved
      /\ sInput.readOk ) =>
      /\ sOut.budgetName = sInput.manager.budgetName
      /\ IdPairs(sOut.accounts) = IdPairs(sInput.manager.accounts)

\* C10 amended: for any non-empty budgetName and any non-empty account list,
\* when save wrote the file and load could read it, load yields the same
\* budgetName and the same set of (sourceId, destinationId) pairs, whatever
\* the default name and the source accounts given to load.
C10_RoundTripWritten ==
    ( /\ spc = "loaded"
      /\ Len(sInput.manager.accounts) > 0
      /\ sInput.saved
      /\ sInput.readOk
      /\ sInput.manager.budgetName \notin {"", Undef} ) =>
      /\ sOut.budgetName = sInput.manager.budgetName
      /\ IdPairs(sOut.accounts) = IdPairs(sInput.manager.accounts)

\* a saved and reloaded mapping of two accounts, loaded under another default
\* name against fresh source data
C10_Witness ==
    /\ spc = "loaded"
    /\ sInput.saved
    /\ sInput.readOk
    /\ sInput.manager.budgetName = "Budget"
    /\ sInput.defaultName = "Otro"
    /\ Len(sInput.sources) = 2
    /\ IdPairs(sOut.accounts) = {<<"a", 7>>, <<"b", Null>>}

----------------------------------------------------------------------------
(* C11 *)

\* the document on disk was read and parsed
Parsed == sInput.readOk /\ sFile.kind = "json"

\* the parsed document has an accounts array
HasAccountsArray == Parsed /\ "accounts" \in DOMAIN sFile.value

\* an entry of the accounts array is null
HasNullEntry ==
    /\ HasAccountsArray
    /\ \E k \in 1..Len(sFile.value.accounts) :
         sFile.value.accounts[k] = JsonNull

\* an entry of the accounts array is no object (null, or a number)
HasNonObjectEntry ==
    /\ HasAccountsArray
    /\ \E k \in 1..Len(sFile.value.accounts) :
         "jsonType" \in DOMAIN sFile.value.accounts[k]

\* load came back with a manager of zero accounts under the default name
EmptyUnderDefaultName ==
    /\ Len(sOut.accounts) = 0
    /\ sOut.budgetName = sInput.defaultName

\* C11 as stated: load never raises, and for a file that is absent,
\* unreadable, not valid JSON, JSON null, or whose accounts array holds a
\* non-object entry, it returns zero accounts under the default budget name.
C11_LoadWrongShapeEmpty ==
    spc = "loadedFile" =>
      /\ "accounts" \in DOMAIN sOut
      /\ (sFile.kind = "absent" \/ ~Parsed \/ sFile.value = JsonNull
            \/ HasNonObjectEntry)
           => EmptyUnderDefaultName

\* C11: load never raises; it returns zero accounts under the default budget
\* name when the file is absent, unreadable, not valid JSON, JSON null, or
\* has a null entry in its accounts array. A document without an accounts
\* array gives zero accounts under its own budgetName, the default where it
\* has none. Otherwise every entry is loaded, under the document's
\* budgetName: a number entry becomes an account with an empty source id and
\* no destination id.
C11_LoadFallsBackOnThrow ==
    spc = "loadedFile" =>
      /\ "accounts" \in DOMAIN sOut
      /\ (sFile.kind = "absent" \/ ~Parsed \/ sFile.value = JsonNull
            \/ HasNullEntry)
           => EmptyUnderDefaultName
      /\ (Parsed /\ sFile.value # JsonNull /\ ~HasAccountsArray)
           => /\ Len(sOut.accounts) = 0
              /\ sOut.budgetName =
                   OrElse(Field(sFile.value, "budgetName"), sInput.defaultName)
      /\ (HasAccountsArray /\ ~HasNullEntry)
           => /\ Len(sOut.accounts) = Len(sFile.value.accounts)
              /\ sOut.budgetName = sFile.value.budgetName
              /\ \A k \in 1..Len(sOut.accounts) :
                   sFile.value.accounts[k] = JsonNumber
                     => /\ AccountId(sOut.accounts[k]) = ""
                        /\ sOut.accounts[k].actualId = Null

\* a readable document with a good record followed by a null entry was
\* loaded: nothing of it is kept, not even its budgetName
C11_Witness ==
    /\ spc = "loadedFile"
    /\ sInput.readOk
    /\ sInput.defaultName = "Otro"
    /\ sFile = JsonFile([budgetName |-> "Viejo",
                         accounts |-> <<PersistedEntry, JsonNull>>])
    /\ sOut = NewBudgetManager("Otro")

----------------------------------------------------------------------------
(* C12 *)

\* C12: the conversion gives one transaction per movement, in order, with
\* imported_id the movement id, imported_payee and notes the description
\* (one and the same text where the movement has none), and amount the
\* movement amount times 100 exactly, sign kept (12.5 gives 1250), or 0 for
\* an amount that is missing or no number.
C12_ConversionScalesExactly ==
    spc = "converted" =>
      /\ Len(sOut) = Len(sInput.movements)
      /\ \A k \in 1..Len(sOut) :
           LET movement == sInput.movements[k]
               tx       == sOut[k]
           IN  /\ tx.imported_id = movement.id
               /\ tx.imported_payee = tx.notes
               /\ movement.description # Undef
                    => tx.notes = movement.description
               /\ IsNumber(movement.amount)
                    => \E h \in Hundredths :
                         /\ movement.amount = Amount(h)
                         /\ tx.amount = DoubleOfInt(h)
               /\ ~IsNumber(movement.amount) => tx.amount = DoubleOfInt(0)

====
